---------------------------- MODULE Spec2Model ----------------------------
(***************************************************************************)
(* Procurement decision support: the rule-based decision engine            *)
(* (src/src/decision_engine.py), the keyword category classifier           *)
(* (src/src/category_engine.py), the pricing analyzer                      *)
(* (src/src/pricing_module.py) and the portfolio analytics                 *)
(* (src/src/analytics_module.py).                                          *)
(*                                                                         *)
(* Numbers.  The operations are pure computations over Python floats.     *)
(* Prices are modelled as exact integers counted in thousandths of a       *)
(* currency unit ("mills"), so that 12.345 is 12345; every quotient is     *)
(* kept exact as a scaled integer or a numerator/denominator pair, and     *)
(* round(x, 2) is modelled as rounding to the nearest hundredth, ties to   *)
(* even.  Binary floating-point representation error is not modelled.      *)
(*                                                                         *)
(* The state is the caller's Offer table (df), the copy of it held by the  *)
(* analytics object (self_df), the taxonomy held by the classifier         *)
(* (self_categories), the last call made by the caller with its arguments  *)
(* (call) and what that call returned (ret).                               *)
(***************************************************************************)
EXTENDS Integers, Sequences, FiniteSets, TLC

VARIABLES df, self_df, self_categories, call, ret

vars == <<df, self_df, self_categories, call, ret>>

-----------------------------------------------------------------------------
(* Arithmetic helpers                                                      *)

\* round-half-to-even of the rational num/den (den > 0) to an integer
RoundHalfEven(num, den) ==
    LET q == num \div den
        r == num % den
    IN  IF 2 * r < den THEN q
        ELSE IF 2 * r > den THEN q + 1
        ELSE IF q % 2 = 0 THEN q ELSE q + 1

\* round(x, 2) of a price x given in mills; the result is counted in cents
Round2Mills(x) == RoundHalfEven(x, 10)

RECURSIVE SumSeq(_)
SumSeq(s) == IF s = <<>> THEN 0 ELSE Head(s) + SumSeq(Tail(s))

SeqMin(s) == CHOOSE x \in {s[i] : i \in 1..Len(s)} :
                 \A j \in 1..Len(s) : x <= s[j]

SeqMax(s) == CHOOSE x \in {s[i] : i \in 1..Len(s)} :
                 \A j \in 1..Len(s) : x >= s[j]

\* the ascending sort of a sequence of integers
RECURSIVE Insert(_, _)
Insert(x, s) == IF s = <<>> THEN <<x>>
                ELSE IF x <= Head(s) THEN <<x>> \o s
                ELSE <<Head(s)>> \o Insert(x, Tail(s))

RECURSIVE SortAsc(_)
SortAsc(s) == IF s = <<>> THEN <<>> ELSE Insert(Head(s), SortAsc(Tail(s)))

-----------------------------------------------------------------------------
(* Decision engine: src/src/decision_engine.py                             *)

BUY_NOW == "Buy Now"
CONSIDER_BUYING == "Consider Buying"
WAIT == "Wait"

ProcurementDecision == {BUY_NOW, CONSIDER_BUYING, WAIT}

LowStockLimit == 50
MediumStockLimit == 150

\* thresholds and margins are fractions in the code; here in percent
PreferredThresholdDefaultPct == 10
HighStockOverridePct == 15
NegotiationMarginDefaultPct == 5

get_stock_level_category_Shifted(stock) ==
    IF stock <= LowStockLimit THEN "Low"
    ELSE IF stock <= MediumStockLimit THEN "Medium"
    ELSE "High"

get_stock_level_category(stock) ==
    IF stock < LowStockLimit THEN "Low"
    ELSE IF stock < MediumStockLimit THEN "Medium"
    ELSE "High"

\* supplier_price < average_price * (1 - threshold), threshold = pct / 100
is_supplier_preferred_NonStrict(supplier_price, average_price, threshold_pct) ==
    supplier_price * 100 <= average_price * (100 - threshold_pct)

is_supplier_preferred(supplier_price, average_price, threshold_pct) ==
    supplier_price * 100 < average_price * (100 - threshold_pct)

make_procurement_decision_NoDefault(stock_level, demand_level, supplier_price, average_price) ==
    LET stock_category == get_stock_level_category(stock_level)
    IN  IF stock_category = "Low" /\ demand_level = "High" THEN BUY_NOW
        ELSE IF stock_category = "Medium" /\ demand_level = "High" THEN CONSIDER_BUYING
        ELSE IF stock_category = "High" THEN
            IF demand_level = "High"
               /\ is_supplier_preferred(supplier_price, average_price, HighStockOverridePct)
            THEN CONSIDER_BUYING
            ELSE WAIT
        ELSE IF stock_category = "Medium" /\ demand_level \in {"Low", "Medium"} THEN WAIT
        ELSE IF demand_level \in {"Low", "Medium"} THEN WAIT
        ELSE "Unknown"

\* the price exception of Rule 3 also applied to Medium stock
make_procurement_decision_PriceAtMedium(stock_level, demand_level, supplier_price, average_price) ==
    LET stock_category == get_stock_level_category(stock_level)
    IN  IF stock_category = "Low" /\ demand_level = "High" THEN BUY_NOW
        ELSE IF stock_category \in {"Medium", "High"} THEN
            IF demand_level = "High"
               /\ is_supplier_preferred(supplier_price, average_price, HighStockOverridePct)
            THEN CONSIDER_BUYING
            ELSE WAIT
        ELSE WAIT

make_procurement_decision(stock_level, demand_level, supplier_price, average_price) ==
    LET stock_category == get_stock_level_category(stock_level)
    IN  IF stock_category = "Low" /\ demand_level = "High" THEN BUY_NOW
        ELSE IF stock_category = "Medium" /\ demand_level = "High" THEN CONSIDER_BUYING
        ELSE IF stock_category = "High" THEN
            IF demand_level = "High"
               /\ is_supplier_preferred(supplier_price, average_price, HighStockOverridePct)
            THEN CONSIDER_BUYING
            ELSE WAIT
        ELSE IF stock_category = "Medium" /\ demand_level \in {"Low", "Medium"} THEN WAIT
        ELSE WAIT

\* round(sum(prices) / len(prices), 2), or 0.0 for no price; in cents
calculate_average_price(prices) ==
    IF prices = <<>> THEN 0
    ELSE RoundHalfEven(SumSeq(prices), Len(prices) * 10)

\* the average price handed on without the margin taken off
calculate_negotiation_price_NoMargin(average_cents, margin_pct) == average_cents

\* round(average_price * (1 - negotiation_margin), 2); average in cents, result in cents
calculate_negotiation_price(average_cents, margin_pct) ==
    RoundHalfEven(average_cents * (100 - margin_pct), 100)

\* min(supplier_prices.items(), key = price): the first cheapest entry of the
\* the first supplier of the dict taken for the cheapest
identify_best_supplier_First(supplier_prices) ==
    IF supplier_prices = <<>> THEN <<"Unknown", 0>> ELSE supplier_prices[1]

\* dict in insertion order; ("Unknown", 0.0) for an empty dict
identify_best_supplier(supplier_prices) ==
    IF supplier_prices = <<>> THEN <<"Unknown", 0>>
    ELSE LET i == CHOOSE k \in 1..Len(supplier_prices) :
                      /\ \A j \in 1..Len(supplier_prices) :
                            supplier_prices[k][2] <= supplier_prices[j][2]
                      /\ \A j \in 1..(k - 1) :
                            supplier_prices[j][2] > supplier_prices[k][2]
         IN  supplier_prices[i]

\* the savings segment also written when the price equals the average
generate_decision_reasoning_SavingsAtPar(decision, stock_level, demand_level, stock_category, supplier_price, average_cents, best_supplier) ==
    LET price_savings == average_cents * 10 - supplier_price
        price_savings_pct_tenths ==
            IF average_cents > 0
            THEN RoundHalfEven(price_savings * 1000, average_cents * 10)
            ELSE 0
    IN  <<[seg |-> "stock", stock_category |-> stock_category,
           stock_level |-> stock_level, demand |-> demand_level]>>
        \o <<[seg |-> "price", supplier_price |-> Round2Mills(supplier_price),
              average_price |-> average_cents]>>
        \o (IF price_savings >= 0
            THEN <<[seg |-> "savings", pct_tenths |-> price_savings_pct_tenths]>>
            ELSE <<>>)
        \o <<[seg |-> "best", best_supplier |-> best_supplier]>>
        \o <<[seg |-> "advice",
              text |-> IF decision = BUY_NOW THEN "immediate procurement"
                       ELSE IF decision = CONSIDER_BUYING THEN "consider purchase"
                       ELSE "monitor"]>>

\* The reasoning string, kept as the list of its " | "-separated segments.
\* supplier_price in mills, average_price in cents; formatted amounts in cents,
\* the percentage in tenths of a percent.
generate_decision_reasoning(decision, stock_level, demand_level, stock_category, supplier_price, average_cents, best_supplier) ==
    LET price_savings == average_cents * 10 - supplier_price
        price_savings_pct_tenths ==
            IF average_cents > 0
            THEN RoundHalfEven(price_savings * 1000, average_cents * 10)
            ELSE 0
    IN  <<[seg |-> "stock", stock_category |-> stock_category,
           stock_level |-> stock_level, demand |-> demand_level]>>
        \o <<[seg |-> "price", supplier_price |-> Round2Mills(supplier_price),
              average_price |-> average_cents]>>
        \o (IF price_savings > 0
            THEN <<[seg |-> "savings", pct_tenths |-> price_savings_pct_tenths]>>
            ELSE <<>>)
        \o <<[seg |-> "best", best_supplier |-> best_supplier]>>
        \o <<[seg |-> "advice",
              text |-> IF decision = BUY_NOW THEN "immediate procurement"
                       ELSE IF decision = CONSIDER_BUYING THEN "consider purchase"
                       ELSE "monitor"]>>

generate_recommendation(selected_supplier, selected_price, supplier_prices, stock_level, demand_level) ==
    LET prices == [i \in 1..Len(supplier_prices) |-> supplier_prices[i][2]]
        average_price == calculate_average_price(prices)
        negotiation_price ==
            calculate_negotiation_price(average_price, NegotiationMarginDefaultPct)
        best == identify_best_supplier(supplier_prices)
        stock_category == get_stock_level_category(stock_level)
        decision == make_procurement_decision(stock_level, demand_level,
                                              selected_price, average_price * 10)
        reasoning == generate_decision_reasoning(decision, stock_level, demand_level,
                                                 stock_category, selected_price,
                                                 average_price, best[1])
    IN  [best_supplier |-> best[1],
         best_price |-> best[2],
         average_price |-> average_price,
         suggested_purchase_price |-> negotiation_price,
         decision |-> decision,
         reasoning |-> reasoning]

-----------------------------------------------------------------------------
(* Inputs of the decision engine                                           *)

MaxSuppliers == 3

StockLevels == {-5, 0, 49, 50, 100, 149, 150, 200}
DemandLevels == {"Low", "Medium", "High", "high", ""}
DecisionPrices == {0, 80000, 84990, 85000, 95000, 100000}
QuotePrices == {80000, 95005, 125000}
SupplierNames == {"Alpha", "Beta", "Gamma"}

\* dicts supplier -> price, as insertion-ordered lists of distinct keys
SupplierPriceTables ==
    UNION {{t \in [1..n -> SupplierNames \X QuotePrices] :
               \A i, j \in 1..n : i # j => t[i][1] # t[j][1]} : n \in 0..MaxSuppliers}

NoCall == [op |-> "none"]
NoRet == [kind |-> "none"]

InitDecision ==
    /\ df = <<>>
    /\ self_df = <<>>
    /\ self_categories = <<>>
    /\ call = NoCall
    /\ ret = NoRet

\* the caller has read the result; the engine keeps nothing of the call
Return ==
    /\ call # NoCall
    /\ call' = NoCall
    /\ ret' = NoRet
    /\ UNCHANGED <<df, self_df, self_categories>>

MakeProcurementDecision ==
    /\ call = NoCall
    /\ \E stock \in StockLevels, demand \in DemandLevels,
          price \in DecisionPrices, average \in DecisionPrices :
        /\ call' = [op |-> "make_procurement_decision", stock_level |-> stock,
                    demand_level |-> demand, supplier_price |-> price,
                    average_price |-> average]
        /\ ret' = [kind |-> "decision",
                   decision |-> make_procurement_decision(stock, demand, price, average)]
        /\ UNCHANGED <<df, self_df, self_categories>>

GenerateRecommendation ==
    /\ call = NoCall
    /\ \E supplier \in SupplierNames, price \in QuotePrices,
          table \in SupplierPriceTables,
          stock \in StockLevels, demand \in DemandLevels :
        /\ call' = [op |-> "generate_recommendation", selected_supplier |-> supplier,
                    selected_price |-> price, supplier_prices |-> table,
                    stock_level |-> stock, demand_level |-> demand]
        /\ ret' = [kind |-> "recommendation",
                   rec |-> generate_recommendation(supplier, price, table, stock, demand)]
        /\ UNCHANGED <<df, self_df, self_categories>>

NextDecision == MakeProcurementDecision \/ GenerateRecommendation \/ Return

SpecDecision == InitDecision /\ [][NextDecision]_vars

-----------------------------------------------------------------------------
(* Properties of the decision engine, checked under SpecDecision           *)

IsDecisionCall == call.op = "make_procurement_decision"
IsRecommendationCall == call.op = "generate_recommendation"

\* C1: for every integer stock level and every demand in {Low, Medium, High},
\* stock is classified Low below 50, Medium from 50 up to 149 and High from 150
\* on (as reported in the recommendation's reasoning), and the decision is
\* Buy Now for Low stock with High demand, Consider Buying for Medium stock with
\* High demand, and Wait for Low or Medium stock with Low or Medium demand.
C1_StockClassesAndRuleTable ==
    /\ IsDecisionCall /\ call.demand_level \in {"Low", "Medium", "High"} =>
        /\ (call.stock_level < 50 /\ call.demand_level = "High")
              => ret.decision = "Buy Now"
        /\ (call.stock_level >= 50 /\ call.stock_level < 150
            /\ call.demand_level = "High")
              => ret.decision = "Consider Buying"
        /\ (call.stock_level < 150 /\ call.demand_level \in {"Low", "Medium"})
              => ret.decision = "Wait"
    /\ IsRecommendationCall /\ call.demand_level \in {"Low", "Medium", "High"} =>
        /\ ret.rec.reasoning[1].stock_category =
              (IF call.stock_level < 50 THEN "Low"
               ELSE IF call.stock_level < 150 THEN "Medium" ELSE "High")
        /\ (call.stock_level < 50 /\ call.demand_level = "High")
              => ret.rec.decision = "Buy Now"
        /\ (call.stock_level >= 50 /\ call.stock_level < 150
            /\ call.demand_level = "High")
              => ret.rec.decision = "Consider Buying"
        /\ (call.stock_level < 150 /\ call.demand_level \in {"Low", "Medium"})
              => ret.rec.decision = "Wait"

\* the lowest Medium stock level with High demand was decided Consider Buying
C1_Witness ==
    /\ IsDecisionCall
    /\ call.stock_level = 50
    /\ call.demand_level = "High"
    /\ ret.decision = "Consider Buying"

\* C2: for stock >= 150 the decision is Consider Buying exactly when demand is
\* High and the supplier price is strictly below 85% of the average price, and
\* Wait otherwise; a price exactly 15% below the average or 5% below it gives
\* Wait, a price 20% below it with High demand gives Consider Buying.
C2_HighStockOverride ==
    IsDecisionCall /\ call.stock_level >= 150 =>
        /\ ret.decision = "Consider Buying" <=>
              (call.demand_level = "High"
               /\ call.supplier_price * 100 < call.average_price * 85)
        /\ ret.decision # "Consider Buying" => ret.decision = "Wait"
        /\ (call.average_price = 100000 /\ call.supplier_price \in {85000, 95000})
              => ret.decision = "Wait"
        /\ (call.average_price = 100000 /\ call.supplier_price = 80000
            /\ call.demand_level = "High")
              => ret.decision = "Consider Buying"

\* High stock, High demand, a price exactly 15% below the average: Wait
C2_Witness ==
    /\ IsDecisionCall
    /\ call.stock_level = 200
    /\ call.demand_level = "High"
    /\ call.supplier_price = 85000
    /\ call.average_price = 100000
    /\ ret.decision = "Wait"

\* C3: whatever the stock level (zero and negative included), the demand value
\* (values outside {Low, Medium, High} included) and the prices, the decision
\* returned, and the one stored in a recommendation, is one of Buy Now,
\* Consider Buying, Wait.
C3_DecisionInEnumeration ==
    /\ IsDecisionCall => ret.decision \in {"Buy Now", "Consider Buying", "Wait"}
    /\ IsRecommendationCall =>
          ret.rec.decision \in {"Buy Now", "Consider Buying", "Wait"}

\* a negative stock level with a demand value outside the three levels
C3_Witness ==
    /\ IsDecisionCall
    /\ call.stock_level < 0
    /\ call.demand_level \notin {"Low", "Medium", "High"}
    /\ ret.decision \in {"Buy Now", "Consider Buying", "Wait"}

-----------------------------------------------------------------------------
(* Category classifier: src/src/category_engine.py                         *)
(* A product name and a keyword are sequences of one-character strings.    *)

\* self.categories, in the insertion order of the dict
categories ==
    << [name |-> "Rice & Grains",
        keywords |-> <<
            <<"b","a","s","m","a","t","i">>,
            <<"r","i","c","e">>,
            <<"j","a","s","m","i","n","e">>,
            <<"w","h","i","t","e"," ","r","i","c","e">>,
            <<"b","r","o","w","n"," ","r","i","c","e">>,
            <<"a","r","b","o","r","i","o">>,
            <<"p","a","r","b","o","i","l","e","d">>,
            <<"l","o","n","g"," ","g","r","a","i","n">>,
            <<"s","h","o","r","t"," ","g","r","a","i","n">>
        >>,
        popular_brands |-> <<"Aeroplane", "India Gate", "Basmati", "Taj", "Daawat">>,
        subcategories |-> <<"Basmati", "Regular Rice", "Brown Rice", "Specialty Grains">>],
       [name |-> "Atta & Flour",
        keywords |-> <<
            <<"a","t","t","a">>,
            <<"f","l","o","u","r">>,
            <<"m","a","i","d","a">>,
            <<"w","h","e","a","t">>,
            <<"b","e","s","a","n">>,
            <<"c","o","r","n"," ","f","l","o","u","r">>,
            <<"r","a","g","i">>,
            <<"j","o","w","a","r">>,
            <<"w","h","o","l","e"," ","w","h","e","a","t">>
        >>,
        popular_brands |-> <<"Aashirvaad", "Pillsbury", "Maida", "Patanjali", "Catch">>,
        subcategories |-> <<"Wheat Atta", "Maida", "Gram Flour", "Specialty Flours">>],
       [name |-> "Dal & Legumes",
        keywords |-> <<
            <<"d","a","l">>,
            <<"l","e","n","t","i","l">>,
            <<"p","u","l","s","e","s">>,
            <<"m","o","o","n","g">>,
            <<"c","h","a","n","a">>,
            <<"m","a","s","o","o","r">>,
            <<"a","r","h","a","r">>,
            <<"u","r","a","d">>,
            <<"g","r","a","m">>,
            <<"b","e","a","n","s">>,
            <<"c","h","i","c","k","p","e","a">>
        >>,
        popular_brands |-> <<"Tata Sampann", "Aashirvaad", "Nature's Gift", "Catch">>,
        subcategories |-> <<"Red Lentils", "Chickpeas", "Moong Dal", "Mixed Pulses">>],
       [name |-> "Edible Oil",
        keywords |-> <<
            <<"o","i","l">>,
            <<"g","h","e","e">>,
            <<"c","o","c","o","n","u","t"," ","o","i","l">>,
            <<"m","u","s","t","a","r","d"," ","o","i","l">>,
            <<"g","r","o","u","n","d","n","u","t"," ","o","i","l">>,
            <<"s","u","n","f","l","o","w","e","r"," ","o","i","l">>,
            <<"s","e","s","a","m","e"," ","o","i","l">>,
            <<"r","e","f","i","n","e","d"," ","o","i","l">>,
            <<"o","l","i","v","e"," ","o","i","l">>
        >>,
        popular_brands |-> <<"Fortune", "Sundrop", "Saffola", "Nandini", "Patanjali">>,
        subcategories |-> <<"Groundnut Oil", "Sunflower Oil", "Coconut Oil", "Ghee">>],
       [name |-> "Milk & Dairy",
        keywords |-> <<
            <<"m","i","l","k">>,
            <<"c","u","r","d">>,
            <<"y","o","g","u","r","t">>,
            <<"c","h","e","e","s","e">>,
            <<"p","a","n","e","e","r">>,
            <<"l","a","s","s","i">>,
            <<"b","u","t","t","e","r">>,
            <<"c","r","e","a","m">>,
            <<"d","a","i","r","y">>,
            <<"d","h","a","i">>
        >>,
        popular_brands |-> <<"Amul", "Mother Dairy", "Nandini", "Arun Icecream", "Britannia">>,
        subcategories |-> <<"Milk", "Curd", "Paneer", "Cheese", "Butter">>],
       [name |-> "Snacks & Namkeen",
        keywords |-> <<
            <<"s","n","a","c","k">>,
            <<"c","h","i","p","s">>,
            <<"w","a","f","e","r">>,
            <<"n","a","m","k","e","e","n">>,
            <<"b","h","u","j","i","a">>,
            <<"m","i","x","t","u","r","e">>,
            <<"p","e","a","n","u","t">>,
            <<"s","a","m","o","s","a">>,
            <<"c","h","a","k","l","i">>,
            <<"m","u","r","u","k","k","u">>
        >>,
        popular_brands |-> <<"Lay's", "Bingo", "Kurkure", "Haldiram's", "Balaji">>,
        subcategories |-> <<"Potato Chips", "Corn Snacks", "Baked Snacks", "Mixed Namkeen">>],
       [name |-> "Beverages",
        keywords |-> <<
            <<"t","e","a">>,
            <<"c","o","f","f","e","e">>,
            <<"j","u","i","c","e">>,
            <<"d","r","i","n","k">>,
            <<"c","o","l","a">>,
            <<"w","a","t","e","r">>,
            <<"s","o","f","t"," ","d","r","i","n","k">>,
            <<"e","n","e","r","g","y"," ","d","r","i","n","k">>,
            <<"p","o","w","d","e","r">>
        >>,
        popular_brands |-> <<"Tata Tea", "Nescafe", "Bru", "Sprite", "Frooti", "Tropicana">>,
        subcategories |-> <<"Tea", "Coffee", "Juices", "Energy Drinks">>],
       [name |-> "Personal Care",
        keywords |-> <<
            <<"s","h","a","m","p","o","o">>,
            <<"s","o","a","p">>,
            <<"t","o","o","t","h","p","a","s","t","e">>,
            <<"f","a","c","e">>,
            <<"s","k","i","n">>,
            <<"h","a","i","r">>,
            <<"l","o","t","i","o","n">>,
            <<"c","r","e","a","m">>,
            <<"d","e","o","d","o","r","a","n","t">>,
            <<"s","a","n","i","t","i","z","e","r">>
        >>,
        popular_brands |-> <<"Dove", "Clinic Plus", "Crest", "Colgate", "Dettol", "Himalaya">>,
        subcategories |-> <<"Hair Care", "Skincare", "Oral Care", "Bath Products">>],
       [name |-> "Cleaning Products",
        keywords |-> <<
            <<"d","e","t","e","r","g","e","n","t">>,
            <<"s","o","a","p">>,
            <<"c","l","e","a","n","e","r">>,
            <<"d","i","s","i","n","f","e","c","t","a","n","t">>,
            <<"b","l","e","a","c","h">>,
            <<"f","l","o","o","r">>,
            <<"g","l","a","s","s">>,
            <<"d","i","s","h">>,
            <<"l","a","u","n","d","r","y">>,
            <<"c","l","e","a","n","i","n","g">>
        >>,
        popular_brands |-> <<"Surf", "Ariel", "Rin", "Dettol", "Harpic", "Lizol">>,
        subcategories |-> <<"Laundry Detergent", "Dish Wash", "Floor Cleaner", "Disinfectants">>],
       [name |-> "Packaged Foods",
        keywords |-> <<
            <<"i","n","s","t","a","n","t">>,
            <<"n","o","o","d","l","e">>,
            <<"p","a","s","t","a">>,
            <<"s","a","u","c","e">>,
            <<"p","i","c","k","l","e">>,
            <<"j","a","m">>,
            <<"s","p","r","e","a","d">>,
            <<"k","e","t","c","h","u","p">>,
            <<"m","a","y","o">>,
            <<"c","o","r","n","f","l","a","k","e","s">>,
            <<"c","e","r","e","a","l">>
        >>,
        popular_brands |-> <<"Maggi", "Sunfeast", "Britannia", "Nestle", "Kissan">>,
        subcategories |-> <<"Instant Noodles", "Breakfast Cereals", "Condiments", "Pickles">>],
       [name |-> "Spices & Condiments",
        keywords |-> <<
            <<"s","p","i","c","e">>,
            <<"p","o","w","d","e","r">>,
            <<"m","a","s","a","l","a">>,
            <<"t","u","r","m","e","r","i","c">>,
            <<"c","h","i","l","i">>,
            <<"p","e","p","p","e","r">>,
            <<"s","a","l","t">>,
            <<"g","a","r","a","m"," ","m","a","s","a","l","a">>,
            <<"c","u","m","i","n">>,
            <<"c","o","r","i","a","n","d","e","r">>
        >>,
        popular_brands |-> <<"MDH", "Everest", "Catch", "Tata Sampann", "Shan">>,
        subcategories |-> <<"Spice Powders", "Spice Mixes", "Salt", "Condiments">>],
       [name |-> "Household Essentials",
        keywords |-> <<
            <<"p","a","p","e","r">>,
            <<"t","i","s","s","u","e">>,
            <<"t","o","w","e","l">>,
            <<"n","a","p","k","i","n">>,
            <<"g","a","r","b","a","g","e">>,
            <<"b","a","g">>,
            <<"c","o","n","t","a","i","n","e","r">>,
            <<"s","t","o","r","a","g","e">>,
            <<"c","a","n","d","l","e">>,
            <<"m","a","t","c","h","e","s">>
        >>,
        popular_brands |-> <<"Surbharoti", "Mondelez", "ITC", "Procter & Gamble">>,
        subcategories |-> <<"Paper Products", "Storage", "Kitchen Essentials">>] >>

\* keyword_subcategory_map of _select_subcategory, in the insertion order of the dict
keyword_subcategory_map ==
    << <<<<"b","a","s","m","a","t","i">>, "Basmati">>,
       <<<<"r","e","d">>, "Red Lentils">>,
       <<<<"m","o","o","n","g">>, "Moong Dal">>,
       <<<<"p","a","n","e","e","r">>, "Paneer">>,
       <<<<"c","u","r","d">>, "Curd">>,
       <<<<"c","h","i","p","s">>, "Potato Chips">>,
       <<<<"t","e","a">>, "Tea">>,
       <<<<"c","o","f","f","e","e">>, "Coffee">>,
       <<<<"s","h","a","m","p","o","o">>, "Hair Care">>,
       <<<<"t","o","o","t","h","p","a","s","t","e">>, "Oral Care">>,
       <<<<"d","e","t","e","r","g","e","n","t">>, "Laundry Detergent">>,
       <<<<"n","o","o","d","l","e">>, "Instant Noodles">>,
       <<<<"c","e","r","e","a","l">>, "Breakfast Cereals">> >>

UpperLetters == <<"A","B","C","D","E","F","G","H","I","J","K","L","M",
                  "N","O","P","Q","R","S","T","U","V","W","X","Y","Z">>
LowerLetters == <<"a","b","c","d","e","f","g","h","i","j","k","l","m",
                  "n","o","p","q","r","s","t","u","v","w","x","y","z">>

\* str.lower(), one character at a time
LowerChar(c) ==
    IF \E i \in 1..Len(UpperLetters) : UpperLetters[i] = c
    THEN LowerLetters[CHOOSE i \in 1..Len(UpperLetters) : UpperLetters[i] = c]
    ELSE c

Lower(s) == [i \in 1..Len(s) |-> LowerChar(s[i])]

\* text.startswith(keyword) in the place of `keyword in text`
Contains_Prefix(keyword, text) ==
    /\ Len(keyword) <= Len(text)
    /\ \A j \in 1..Len(keyword) : text[j] = keyword[j]

\* Python's `keyword in text` on strings: keyword is a contiguous substring
Contains(keyword, text) ==
    \E i \in 0..(Len(text) - Len(keyword)) :
        \A j \in 1..Len(keyword) : text[i + j] = keyword[j]

InList(x, list) == \E i \in 1..Len(list) : list[i] = x

\* the loop without the test `subcat in subcategories`
RECURSIVE SubcategoryScan_Unchecked(_, _, _)
SubcategoryScan_Unchecked(product_name, subcategories, i) ==
    IF i > Len(keyword_subcategory_map)
    THEN (IF subcategories # <<>> THEN subcategories[1] ELSE "General")
    ELSE IF Contains(keyword_subcategory_map[i][1], product_name)
         THEN keyword_subcategory_map[i][2]
         ELSE SubcategoryScan_Unchecked(product_name, subcategories, i + 1)

\* the loop of _select_subcategory over keyword_subcategory_map, from entry i on
RECURSIVE SubcategoryScan(_, _, _)
SubcategoryScan(product_name, subcategories, i) ==
    IF i > Len(keyword_subcategory_map)
    THEN (IF subcategories # <<>> THEN subcategories[1] ELSE "General")
    ELSE IF /\ Contains(keyword_subcategory_map[i][1], product_name)
            /\ InList(keyword_subcategory_map[i][2], subcategories)
         THEN keyword_subcategory_map[i][2]
         ELSE SubcategoryScan(product_name, subcategories, i + 1)

\* the first declared subcategory, whatever the name holds
_select_subcategory_FirstDeclared(product_name, subcategories) ==
    IF subcategories # <<>> THEN subcategories[1] ELSE "General"

_select_subcategory(product_name, subcategories) ==
    SubcategoryScan(product_name, subcategories, 1)

AnyKeywordIn(details, text) ==
    \E k \in 1..Len(details.keywords) : Contains(details.keywords[k], text)

\* the loop of categorize_product over self.categories, from category i on
RECURSIVE CategoryScan(_, _)
CategoryScan(product_lower, i) ==
    IF i > Len(self_categories) THEN <<"Other Products", "Uncategorized">>
    ELSE IF AnyKeywordIn(self_categories[i], product_lower)
         THEN <<self_categories[i].name,
                _select_subcategory(product_lower, self_categories[i].subcategories)>>
         ELSE CategoryScan(product_lower, i + 1)

\* a scan that keeps the last matching category instead of returning the first
RECURSIVE CategoryScanLast(_, _, _)
CategoryScanLast(product_lower, i, found) ==
    IF i > Len(self_categories) THEN found
    ELSE IF AnyKeywordIn(self_categories[i], product_lower)
         THEN CategoryScanLast(product_lower, i + 1,
                  <<self_categories[i].name,
                    _select_subcategory(product_lower, self_categories[i].subcategories)>>)
         ELSE CategoryScanLast(product_lower, i + 1, found)

categorize_product_LastMatch(product_name) ==
    CategoryScanLast(Lower(product_name), 1, <<"Other Products", "Uncategorized">>)

\* matching without product_name.lower()
categorize_product_CaseSensitive(product_name) ==
    CategoryScan(product_name, 1)

categorize_product(product_name) ==
    CategoryScan(Lower(product_name), 1)

get_brand_list(category) ==
    IF \E i \in 1..Len(self_categories) : self_categories[i].name = category
    THEN self_categories[CHOOSE i \in 1..Len(self_categories) :
                        self_categories[i].name = category].popular_brands
    ELSE <<>>

\* self.categories after self.categories.setdefault(category, {}) in the place
\* of self.categories.get(category, {}): an unknown category gets an entry
categories_after_get_brand_list_SetDefault(category) ==
    IF \E i \in 1..Len(self_categories) : self_categories[i].name = category
    THEN self_categories
    ELSE Append(self_categories,
                [name |-> category, keywords |-> <<>>,
                 popular_brands |-> <<>>, subcategories |-> <<>>])

\* self.categories after get_brand_list: dict.get reads the dict and inserts
\* nothing
categories_after_get_brand_list(category) == self_categories

get_all_categories == [i \in 1..Len(self_categories) |-> self_categories[i].name]

-----------------------------------------------------------------------------
(* Inputs of the classifier: names made of up to MaxWords words joined by  *)
(* single spaces                                                           *)

MaxWords == 2

NameWords ==
    { <<"r","i","c","e">>, <<"O","i","l">>, <<"S","O","A","P">>,
      <<"c","r","e","a","m">>, <<"T","e","a">>, <<"r","e","d">>,
      <<"m","o","o","n","g">>, <<"d","a","l">>, <<"x","y","z">>,
      <<"#","!">> }

RECURSIVE JoinWords(_)
JoinWords(ws) ==
    IF ws = <<>> THEN <<>>
    ELSE IF Len(ws) = 1 THEN ws[1]
    ELSE ws[1] \o <<" ">> \o JoinWords(Tail(ws))

ProductNames ==
    {JoinWords(ws) : ws \in UNION {[1..n -> NameWords] : n \in 0..MaxWords}}

InitCategory ==
    /\ df = <<>>
    /\ self_df = <<>>
    /\ self_categories = categories
    /\ call = NoCall
    /\ ret = NoRet

CategorizeProduct ==
    /\ call = NoCall
    /\ \E name \in ProductNames :
        /\ call' = [op |-> "categorize_product", product_name |-> name]
        /\ ret' = [kind |-> "category", pair |-> categorize_product(name)]
        /\ UNCHANGED <<df, self_df, self_categories>>

GetBrandList ==
    /\ call = NoCall
    /\ \E category \in {self_categories[i].name : i \in 1..Len(self_categories)}
                          \cup {"Other Products"} :
        /\ call' = [op |-> "get_brand_list", category |-> category]
        /\ ret' = [kind |-> "brands", list |-> get_brand_list(category)]
        /\ self_categories' = categories_after_get_brand_list(category)
        /\ UNCHANGED <<df, self_df>>

GetAllCategories ==
    /\ call = NoCall
    /\ call' = [op |-> "get_all_categories"]
    /\ ret' = [kind |-> "categories", list |-> get_all_categories]
    /\ UNCHANGED <<df, self_df, self_categories>>

NextCategory == CategorizeProduct \/ GetBrandList \/ GetAllCategories \/ Return

SpecCategory == InitCategory /\ [][NextCategory]_vars

-----------------------------------------------------------------------------
(* Properties of the classifier, checked under SpecCategory                *)

IsCategorizeCall == call.op = "categorize_product"

\* the categories (by position in the taxonomy) one of whose keywords occurs,
\* whatever the case of the letters, somewhere in the name
MatchedCategories(name) ==
    {c \in 1..Len(categories) :
        \E k \in 1..Len(categories[c].keywords) :
            Contains(categories[c].keywords[k], Lower(name))}

Sentinel == <<"Other Products", "Uncategorized">>

\* C4: when keywords of one or more categories occur in the name, the category
\* returned is the earliest of those categories in the taxonomy order, wherever
\* the keywords stand in the name and whatever their lengths; a name holding
\* both "rice" and "oil" is classified Rice & Grains.
C4_EarliestCategoryWins ==
    IsCategorizeCall =>
        /\ \A c \in MatchedCategories(call.product_name) :
              (\A d \in MatchedCategories(call.product_name) : c <= d)
                  => ret.pair[1] = categories[c].name
        /\ (Contains(<<"r","i","c","e">>, Lower(call.product_name))
            /\ Contains(<<"o","i","l">>, Lower(call.product_name)))
              => ret.pair[1] = "Rice & Grains"

\* "Oil rice": the keyword of the later category stands first in the name
C4_Witness ==
    /\ IsCategorizeCall
    /\ call.product_name = <<"O","i","l"," ","r","i","c","e">>
    /\ Cardinality(MatchedCategories(call.product_name)) >= 2
    /\ ret.pair[1] = "Rice & Grains"

\* C5: the sentinel pair (Other Products, Uncategorized) is returned, as a
\* normal result, exactly when no keyword of any category occurs in the name;
\* the empty name and a name of punctuation only get it.
C5_SentinelIffNoKeyword ==
    IsCategorizeCall =>
        /\ ret.kind = "category"
        /\ ret.pair = Sentinel <=> MatchedCategories(call.product_name) = {}
        /\ call.product_name \in {<<>>, <<"#","!">>} => ret.pair = Sentinel

\* a name of punctuation only was classified with the sentinel
C5_Witness ==
    /\ IsCategorizeCall
    /\ call.product_name = <<"#","!">>
    /\ ret.pair = Sentinel

-----------------------------------------------------------------------------
(* Pricing analyzer: src/src/pricing_module.py                             *)
(*                                                                         *)
(* The Offer table df is a sequence of rows [product_id, product_name,     *)
(* supplier_name, selling_price], selling_price in mills.  Of the analysis *)
(* record the fields that need mrp or a square root (avg_mrp,              *)
(* avg_discount_pct, price_std_dev) are not modelled; the mean is kept as  *)
(* the pair <<sum, count>> and the squared coefficient of variation as a   *)
(* pair <<numerator, denominator>>.                                        *)

discount_margin_pct == 5
\* price_variance_threshold = 0.20, as the fraction 1/5
price_variance_threshold_num == 1
price_variance_threshold_den == 5

\* df[df["product_id"] == product_id]
ProductData(table, product_id) ==
    SelectSeq(table, LAMBDA row : row.product_id = product_id)

SellingPrices(rows) == [i \in 1..Len(rows) |-> rows[i].selling_price]

\* 4 * np.percentile(prices, 25 * q), linear interpolation between the two
\* order statistics around the position q * (n - 1) / 4
Percentile4(prices, q) ==
    LET sorted == SortAsc(prices)
        pos4 == q * (Len(prices) - 1)
        k == pos4 \div 4
        r == pos4 % 4
    IN  IF r = 0 THEN 4 * sorted[k + 1]
        ELSE 4 * sorted[k + 1] + r * (sorted[k + 2] - sorted[k + 1])

\* 2 * np.median(prices)
Median2(prices) ==
    LET sorted == SortAsc(prices)
        n == Len(prices)
    IN  IF n % 2 = 1 THEN 2 * sorted[(n + 1) \div 2]
        ELSE sorted[n \div 2] + sorted[n \div 2 + 1]

\* the fences taken exclusive
IqrFiltered_Strict(prices) ==
    LET Q1x4 == Percentile4(prices, 1)
        Q3x4 == Percentile4(prices, 3)
        IQRx4 == Q3x4 - Q1x4
    IN  SelectSeq(prices, LAMBDA p : /\ 8 * p > 2 * Q1x4 - 3 * IQRx4
                                     /\ 8 * p < 2 * Q3x4 + 3 * IQRx4)

\* prices[(prices >= Q1 - 1.5*IQR) & (prices <= Q3 + 1.5*IQR)]
IqrFiltered(prices) ==
    LET Q1x4 == Percentile4(prices, 1)
        Q3x4 == Percentile4(prices, 3)
        IQRx4 == Q3x4 - Q1x4
    IN  SelectSeq(prices, LAMBDA p : /\ 8 * p >= 2 * Q1x4 - 3 * IQRx4
                                     /\ 8 * p <= 2 * Q3x4 + 3 * IQRx4)

\* the median of all the prices, no outlier removed
_calculate_fair_price_Unfiltered(prices) == Median2(prices)

\* the fair price with the negotiation margin already taken off
_calculate_fair_price_Discounted(prices) ==
    LET filtered_prices == IqrFiltered(prices)
    IN  IF Len(filtered_prices) = 0
        THEN (Median2(prices) * (100 - discount_margin_pct)) \div 100
        ELSE (Median2(filtered_prices) * (100 - discount_margin_pct)) \div 100

\* 2 * the fair price (half-mills)
_calculate_fair_price(prices) ==
    LET filtered_prices == IqrFiltered(prices)
    IN  IF Len(filtered_prices) = 0 THEN Median2(prices)
        ELSE Median2(filtered_prices)

NotFound == [error |-> "Product not found"]

analyze_product_pricing_ErrorWithFields(table, product_id) ==
    LET product_data == ProductData(table, product_id)
        prices == SellingPrices(product_data)
    IN  IF product_data = <<>>
        THEN [error |-> "Product not found", product_id |-> product_id,
              supplier_count |-> 0]
        ELSE [product_name |-> product_data[1].product_name,
              product_id |-> product_id,
              avg_selling_price |-> <<SumSeq(prices), Len(prices)>>,
              min_price |-> SeqMin(prices),
              max_price |-> SeqMax(prices),
              price_range |-> SeqMax(prices) - SeqMin(prices),
              supplier_count |-> Len(product_data),
              median_price_x2 |-> Median2(prices),
              fair_price_x2 |-> _calculate_fair_price(prices),
              supplier_comparison |->
                  [i \in 1..Len(product_data) |->
                      [supplier_name |-> product_data[i].supplier_name,
                       selling_price |-> product_data[i].selling_price]]]

analyze_product_pricing(table, product_id) ==
    LET product_data == ProductData(table, product_id)
        prices == SellingPrices(product_data)
    IN  IF product_data = <<>> THEN NotFound
        ELSE [product_name |-> product_data[1].product_name,
              product_id |-> product_id,
              avg_selling_price |-> <<SumSeq(prices), Len(prices)>>,
              min_price |-> SeqMin(prices),
              max_price |-> SeqMax(prices),
              price_range |-> SeqMax(prices) - SeqMin(prices),
              supplier_count |-> Len(product_data),
              median_price_x2 |-> Median2(prices),
              fair_price_x2 |-> _calculate_fair_price(prices),
              supplier_comparison |->
                  [i \in 1..Len(product_data) |->
                      [supplier_name |-> product_data[i].supplier_name,
                       selling_price |-> product_data[i].selling_price]]]

\* an optional argument: <<>> is None, <<v>> is the value v
None == <<>>
Some(v) == <<v>>
\* Python truthiness of an optional integer: None and 0 are false
Truthy(opt) == opt # None /\ opt[1] # 0

\* Series.unique(): the distinct values in order of first appearance
RECURSIVE UniqueFrom(_, _, _)
UniqueFrom(s, i, seen) ==
    IF i > Len(s) THEN <<>>
    ELSE IF s[i] \in seen THEN UniqueFrom(s, i + 1, seen)
    ELSE <<s[i]>> \o UniqueFrom(s, i + 1, seen \cup {s[i]})

Unique(s) == UniqueFrom(s, 1, {})

SumSq(prices) == SumSeq([i \in 1..Len(prices) |-> prices[i] * prices[i]])

\* cv = std / mean, std the sample standard deviation (ddof = 1), for n > 1
\* prices >= 0;  cv^2 = n (n Q - S^2) / ((n - 1) S^2), S the sum, Q the sum of squares
CvSquared(prices) ==
    LET n == Len(prices)
        S == SumSeq(prices)
    IN  <<n * (n * SumSq(prices) - S * S), (n - 1) * S * S>>

\* cv >= threshold in place of cv > threshold
CvAbove_NonStrict(prices, t_num, t_den) ==
    LET cv2 == CvSquared(prices)
    IN  /\ SumSeq(prices) > 0
        /\ cv2[1] * t_den * t_den >= t_num * t_num * cv2[2]

\* cv > threshold; for a mean of 0 (all prices 0) cv is 0/0 = NaN, and
\* NaN > threshold is false
CvAbove(prices, t_num, t_den) ==
    LET cv2 == CvSquared(prices)
    IN  /\ SumSeq(prices) > 0
        /\ cv2[1] * t_den * t_den > t_num * t_num * cv2[2]

\* the loop of identify_price_anomalies over the products, from the i-th on
RECURSIVE AnomalyScan(_, _, _)
AnomalyScan(data, products, i) ==
    IF i > Len(products) THEN <<>>
    ELSE LET product_prices == SellingPrices(ProductData(data, products[i]))
         IN  (IF Len(product_prices) > 1
                 /\ CvAbove(product_prices, price_variance_threshold_num,
                            price_variance_threshold_den)
              THEN <<[product_id |-> products[i],
                      product_name |-> ProductData(data, products[i])[1].product_name,
                      max_price |-> SeqMax(product_prices),
                      min_price |-> SeqMin(product_prices),
                      cv_squared |-> CvSquared(product_prices),
                      status |-> "High Variance"]>>
              ELSE <<>>)
             \o AnomalyScan(data, products, i + 1)

identify_price_anomalies(table, product_id) ==
    LET data == IF Truthy(product_id) THEN ProductData(table, product_id[1])
                ELSE table
        products == Unique([i \in 1..Len(data) |-> data[i].product_id])
    IN  AnomalyScan(data, products, 1)

\* a float that may be NaN
NaN == [nan |-> TRUE]
Num(v) == [nan |-> FALSE, v |-> v]

\* supplier_name of the first row whose selling_price equals price
FirstSupplierAt(product_data, price) ==
    product_data[CHOOSE i \in 1..Len(product_data) :
                    /\ product_data[i].selling_price = price
                    /\ \A j \in 1..(i - 1) : product_data[j].selling_price # price
                ].supplier_name

\* the percentage taken of the price range instead of the highest price
calculate_savings_opportunity_OfRange(table, product_id) ==
    LET product_data == ProductData(table, product_id)
        prices == SellingPrices(product_data)
        max_price == SeqMax(prices)
        min_price == SeqMin(prices)
        savings_per_unit == max_price - min_price
    IN  IF product_data = <<>> THEN NotFound
        ELSE [product_name |-> product_data[1].product_name,
              savings_per_unit |-> Round2Mills(savings_per_unit),
              savings_percentage |->
                  IF savings_per_unit = 0 THEN NaN
                  ELSE Num(RoundHalfEven(savings_per_unit * 10000, savings_per_unit)),
              current_supplier |-> FirstSupplierAt(product_data, max_price),
              best_supplier |-> FirstSupplierAt(product_data, min_price),
              current_price |-> Round2Mills(max_price),
              best_price |-> Round2Mills(min_price)]

\* amounts in cents, savings_percentage in hundredths of a percent
calculate_savings_opportunity(table, product_id) ==
    LET product_data == ProductData(table, product_id)
        prices == SellingPrices(product_data)
        max_price == SeqMax(prices)
        min_price == SeqMin(prices)
        savings_per_unit == max_price - min_price
    IN  IF product_data = <<>> THEN NotFound
        ELSE [product_name |-> product_data[1].product_name,
              savings_per_unit |-> Round2Mills(savings_per_unit),
              savings_percentage |->
                  IF max_price = 0 THEN NaN
                  ELSE Num(RoundHalfEven(savings_per_unit * 10000, max_price)),
              current_supplier |-> FirstSupplierAt(product_data, max_price),
              best_supplier |-> FirstSupplierAt(product_data, min_price),
              current_price |-> Round2Mills(max_price),
              best_price |-> Round2Mills(min_price)]

-----------------------------------------------------------------------------
(* The Offer table and the calls of the pricing analyzer                   *)

MaxOffers == 4

ProductIds == {1, 2}
\* the identifiers a caller asks about: those of the table and one no offer has
QueryProductIds == ProductIds \cup {3}
OfferPrices == {0, 450, 453, 650}

product_names == <<"Basmati Rice 5kg", "Sunflower Oil 1L">>
\* one row per supplier: the supplier of the i-th row of the table
supplier_roster == <<"Supplier A", "Supplier B", "Supplier C",
                     "Supplier D", "Supplier E", "Supplier F">>

InitPricing ==
    /\ df = <<>>
    /\ self_df = <<>>
    /\ self_categories = <<>>
    /\ call = NoCall
    /\ ret = NoRet

\* the caller adds an offer to the table between two calls
AddOffer ==
    /\ call = NoCall
    /\ Len(df) < MaxOffers
    /\ \E pid \in ProductIds, price \in OfferPrices :
        df' = Append(df, [product_id |-> pid,
                          product_name |-> product_names[pid],
                          supplier_name |-> supplier_roster[Len(df) + 1],
                          selling_price |-> price])
    /\ UNCHANGED <<self_df, self_categories, call, ret>>

AnalyzeProductPricing ==
    /\ call = NoCall
    /\ \E pid \in QueryProductIds :
        /\ call' = [op |-> "analyze_product_pricing", product_id |-> pid]
        /\ ret' = [kind |-> "analysis", result |-> analyze_product_pricing(df, pid)]
    /\ UNCHANGED <<df, self_df, self_categories>>

IdentifyPriceAnomalies ==
    /\ call = NoCall
    /\ \E pid \in {None} \cup {Some(p) : p \in QueryProductIds \cup {0}} :
        /\ call' = [op |-> "identify_price_anomalies", product_id |-> pid]
        /\ ret' = [kind |-> "anomalies", rows |-> identify_price_anomalies(df, pid)]
    /\ UNCHANGED <<df, self_df, self_categories>>

CalculateSavingsOpportunity ==
    /\ call = NoCall
    /\ \E pid \in QueryProductIds :
        /\ call' = [op |-> "calculate_savings_opportunity", product_id |-> pid]
        /\ ret' = [kind |-> "savings",
                   result |-> calculate_savings_opportunity(df, pid)]
    /\ UNCHANGED <<df, self_df, self_categories>>

NextPricing ==
    \/ AddOffer
    \/ AnalyzeProductPricing
    \/ IdentifyPriceAnomalies
    \/ CalculateSavingsOpportunity
    \/ Return

SpecPricing == InitPricing /\ [][NextPricing]_vars

-----------------------------------------------------------------------------
(* Properties of the pricing analyzer, checked under SpecPricing           *)

\* the rows of df that are offers of product pid, and their selling prices
OfferRows(pid) == {i \in 1..Len(df) : df[i].product_id = pid}
OfferCount(pid) == Cardinality(OfferRows(pid))
OfferPriceSet(pid) == {df[i].selling_price : i \in OfferRows(pid)}
LowestOffer(pid) == CHOOSE p \in OfferPriceSet(pid) : \A q \in OfferPriceSet(pid) : p <= q
HighestOffer(pid) == CHOOSE p \in OfferPriceSet(pid) : \A q \in OfferPriceSet(pid) : p >= q
ProductsInTable == {df[i].product_id : i \in 1..Len(df)}

\* sums over a set of rows of df
RECURSIVE SumPrices(_)
SumPrices(rows) ==
    IF rows = {} THEN 0
    ELSE LET i == CHOOSE j \in rows : TRUE
         IN  df[i].selling_price + SumPrices(rows \ {i})

RECURSIVE SumPriceSquares(_)
SumPriceSquares(rows) ==
    IF rows = {} THEN 0
    ELSE LET i == CHOOSE j \in rows : TRUE
         IN  df[i].selling_price * df[i].selling_price + SumPriceSquares(rows \ {i})

\* 25 * (sample variance) compared with (mean)^2, cleared of denominators:
\* the coefficient of variation of the offers of pid is above / equal to 0.20
CvOver20Percent(pid) ==
    LET n == OfferCount(pid)
        S == SumPrices(OfferRows(pid))
        Q == SumPriceSquares(OfferRows(pid))
    IN  S > 0 /\ 25 * n * (n * Q - S * S) > (n - 1) * S * S

CvIs20Percent(pid) ==
    LET n == OfferCount(pid)
        S == SumPrices(OfferRows(pid))
        Q == SumPriceSquares(OfferRows(pid))
    IN  S > 0 /\ 25 * n * (n * Q - S * S) = (n - 1) * S * S

IsAnalysisCall == call.op = "analyze_product_pricing"
IsAnomalyCall == call.op = "identify_price_anomalies"
IsSavingsCall == call.op = "calculate_savings_opportunity"

\* C6: for a product with at least one offer, the fair price of the analysis
\* is at least the lowest and at most the highest selling price of the
\* product's offers.
C6_FairPriceWithinRange ==
    IsAnalysisCall /\ OfferCount(call.product_id) >= 1 =>
        /\ "fair_price_x2" \in DOMAIN ret.result
        /\ 2 * LowestOffer(call.product_id) <= ret.result.fair_price_x2
        /\ ret.result.fair_price_x2 <= 2 * HighestOffer(call.product_id)

\* an analysis in which the outlier filter moved the fair price off the median
C6_Witness ==
    /\ IsAnalysisCall
    /\ OfferCount(call.product_id) >= 4
    /\ "fair_price_x2" \in DOMAIN ret.result
    /\ ret.result.fair_price_x2 # ret.result.median_price_x2
    /\ 2 * LowestOffer(call.product_id) <= ret.result.fair_price_x2
    /\ ret.result.fair_price_x2 <= 2 * HighestOffer(call.product_id)

\* the products the call looks at: the given product when the identifier is
\* given (and not 0), every product of the table otherwise
AnomalyScope ==
    IF Truthy(call.product_id) THEN ProductsInTable \cap {call.product_id[1]}
    ELSE ProductsInTable

ReportedProducts == {ret.rows[i].product_id : i \in 1..Len(ret.rows)}

\* C7: identify_price_anomalies reports a product (among those it looks at)
\* exactly when the product has at least two offers and the coefficient of
\* variation of its selling prices is strictly above 0.20; a product with one
\* offer, or with a coefficient of exactly 0.20, is not reported.
C7_AnomalyIffCvAboveThreshold ==
    IsAnomalyCall =>
        /\ ReportedProducts =
              {p \in AnomalyScope : OfferCount(p) >= 2 /\ CvOver20Percent(p)}
        /\ \A p \in ProductsInTable :
              (OfferCount(p) = 1 \/ CvIs20Percent(p)) => p \notin ReportedProducts

\* a product whose coefficient of variation is exactly 0.20 was looked at and
\* not reported
C7_Witness ==
    /\ IsAnomalyCall
    /\ \E p \in AnomalyScope :
          /\ OfferCount(p) >= 2
          /\ CvIs20Percent(p)
          /\ p \notin ReportedProducts

SuppliersAt(pid, price) ==
    {df[i].supplier_name : i \in {j \in OfferRows(pid) : df[j].selling_price = price}}

\* C8 (as claimed, read with the 2-decimal rounding of the outputs): for a
\* product with at least one offer, savings_per_unit = max - min and
\* savings_percentage = savings_per_unit / max * 100, a number; best_supplier
\* sells at the minimum, current_supplier at the maximum, best_price is the
\* minimum and current_price the maximum.
C8_SavingsRecordAsClaimed ==
    IsSavingsCall /\ OfferCount(call.product_id) >= 1 =>
        LET lo == LowestOffer(call.product_id)
            hi == HighestOffer(call.product_id)
            r == ret.result
        IN  /\ r.savings_per_unit = RoundHalfEven(hi - lo, 10)
            /\ ~r.savings_percentage.nan
            /\ hi > 0 => r.savings_percentage.v = RoundHalfEven((hi - lo) * 10000, hi)
            /\ r.best_supplier \in SuppliersAt(call.product_id, lo)
            /\ r.current_supplier \in SuppliersAt(call.product_id, hi)
            /\ r.best_price = RoundHalfEven(lo, 10)
            /\ r.current_price = RoundHalfEven(hi, 10)

\* C9 (as claimed): for a product with at least one offer, all selling prices
\* >= 0, savings_per_unit >= 0 and savings_percentage is a defined number with
\* 0 <= savings_percentage < 100, also when the cheapest or every offer is at 0.
C9_SavingsRangeAsClaimed ==
    IsSavingsCall /\ OfferCount(call.product_id) >= 1 =>
        /\ ret.result.savings_per_unit >= 0
        /\ ~ret.result.savings_percentage.nan
        /\ ret.result.savings_percentage.v >= 0
        /\ ret.result.savings_percentage.v < 10000

\* C10: analyze_product_pricing and calculate_savings_opportunity, asked for a
\* product that has no offer in the table (the empty table included), return
\* the record whose only field is error = "Product not found".
C10_NotFoundResult ==
    (IsAnalysisCall \/ IsSavingsCall) /\ OfferCount(call.product_id) = 0 =>
        /\ DOMAIN ret.result = {"error"}
        /\ ret.result.error = "Product not found"

\* the not-found record was returned for a query on the empty table
C10_Witness ==
    /\ IsAnalysisCall
    /\ df = <<>>
    /\ DOMAIN ret.result = {"error"}
    /\ ret.result.error = "Product not found"

-----------------------------------------------------------------------------
(* Margins and thresholds handed in by the caller:                         *)
(* PricingAnalyzer.calculate_procurement_price (pricing_module.py) and     *)
(* calculate_negotiation_price, is_supplier_preferred (decision_engine.py) *)
(* called on their own.  Margins and thresholds are counted in percent.    *)

\* margin = negotiation_margin or self.discount_margin, with Python's "or"
EffectiveMargin(negotiation_margin) ==
    IF Truthy(negotiation_margin) THEN negotiation_margin[1] ELSE discount_margin_pct

\* float(fair_price * (1 - margin)); the result is counted in hundredths of
\* the unit of fair_price
calculate_procurement_price(fair_price, negotiation_margin) ==
    fair_price * (100 - EffectiveMargin(negotiation_margin))

MarginPcts == {-10, 0, 5, 10, 50, 99, 100, 150}
OptionalMargins == {None} \cup {Some(m) : m \in MarginPcts}
FairPrices == {0, 450, 10000, 84990}

InitMargin ==
    /\ df = <<>>
    /\ self_df = <<>>
    /\ self_categories = <<>>
    /\ call = NoCall
    /\ ret = NoRet

CalculateProcurementPrice ==
    /\ call = NoCall
    /\ \E fair_price \in FairPrices, negotiation_margin \in OptionalMargins :
        /\ call' = [op |-> "calculate_procurement_price",
                    fair_price |-> fair_price,
                    negotiation_margin |-> negotiation_margin]
        /\ ret' = [kind |-> "price_x100",
                   value |-> calculate_procurement_price(fair_price, negotiation_margin)]
        /\ UNCHANGED <<df, self_df, self_categories>>

\* negotiation_margin left out is the default of the signature
CalculateNegotiationPrice ==
    /\ call = NoCall
    /\ \E average_price \in FairPrices, negotiation_margin \in OptionalMargins :
        /\ call' = [op |-> "calculate_negotiation_price",
                    average_price |-> average_price,
                    negotiation_margin |-> negotiation_margin]
        /\ ret' = [kind |-> "price",
                   value |-> calculate_negotiation_price(average_price,
                                IF negotiation_margin = None
                                THEN NegotiationMarginDefaultPct
                                ELSE negotiation_margin[1])]
        /\ UNCHANGED <<df, self_df, self_categories>>

\* threshold left out is the default of the signature
IsSupplierPreferred ==
    /\ call = NoCall
    /\ \E supplier_price \in FairPrices, average_price \in FairPrices,
          threshold \in OptionalMargins :
        /\ call' = [op |-> "is_supplier_preferred",
                    supplier_price |-> supplier_price,
                    average_price |-> average_price,
                    threshold |-> threshold]
        /\ ret' = [kind |-> "verdict",
                   value |-> is_supplier_preferred(supplier_price, average_price,
                                IF threshold = None
                                THEN PreferredThresholdDefaultPct
                                ELSE threshold[1])]
        /\ UNCHANGED <<df, self_df, self_categories>>

NextMargin ==
    \/ CalculateProcurementPrice
    \/ CalculateNegotiationPrice
    \/ IsSupplierPreferred
    \/ Return

SpecMargin == InitMargin /\ [][NextMargin]_vars

-----------------------------------------------------------------------------
(* Properties of the margins, checked under SpecMargin                     *)

IsProcurementPriceCall == call.op = "calculate_procurement_price"
IsNegotiationPriceCall == call.op = "calculate_negotiation_price"
IsPreferredCall == call.op = "is_supplier_preferred"

\* the margin or threshold the caller supplied, as an optional value
SuppliedMargin ==
    IF IsPreferredCall THEN call.threshold ELSE call.negotiation_margin

InUnitRange(m) == 0 <= m /\ m < 100

\* C11: calculate_procurement_price(fair_price, m) returns fair_price * (1 - m)
\* for every supplied margin m with 0 <= m < 1, so that a supplied margin of 0
\* returns fair_price itself, and fair_price * 0.95 when no margin is supplied.
C11_ProcurementPriceAsClaimed ==
    IsProcurementPriceCall =>
        /\ (call.negotiation_margin # None
            /\ InUnitRange(call.negotiation_margin[1]))
              => ret.value = call.fair_price * (100 - call.negotiation_margin[1])
        /\ call.negotiation_margin = Some(0) => ret.value = call.fair_price * 100
        /\ call.negotiation_margin = None => ret.value = call.fair_price * 95

\* C12: a margin or threshold outside [0, 1) supplied to
\* calculate_procurement_price, calculate_negotiation_price or
\* is_supplier_preferred is rejected instead of being used to compute a price or
\* a verdict, so that no negative and no inflated procurement price is returned.
C12_OutOfRangeRejected ==
    /\ (IsProcurementPriceCall \/ IsNegotiationPriceCall \/ IsPreferredCall)
       /\ SuppliedMargin # None /\ ~InUnitRange(SuppliedMargin[1])
          => ret.kind = "raise"
    /\ IsProcurementPriceCall /\ ret.kind # "raise"
          => 0 <= ret.value /\ ret.value <= call.fair_price * 100

-----------------------------------------------------------------------------
(* Portfolio analytics: src/src/analytics_module.py                        *)
(*                                                                         *)
(* A ProcurementAnalytics object keeps self.df, the copy of the caller's   *)
(* table made by its constructor; its methods read that copy.  The rows    *)
(* carry, besides the columns of the pricing analyzer, the category of the *)
(* product.  A call that raises returns [kind |-> "raise"].                *)

\* self.df as a method reads it, when the constructor stored the caller's
\* table itself instead of a copy of it
ObjectTable_Aliased == df

\* self.df as a method reads it: the copy made by __init__
ObjectTable == self_df

\* self.df[self.df["category"] == category]
CategoryData(table, category) ==
    SelectSeq(table, LAMBDA row : row.category = category)

\* every row counted as a supplier of its own
SumSquaredSizes_PerRow(category_data, suppliers) == Len(category_data)

\* the sum, over the suppliers, of the square of
\* category_data.groupby("supplier_name").size()
RECURSIVE SumSquaredSizes(_, _)
SumSquaredSizes(category_data, suppliers) ==
    IF suppliers = {} THEN 0
    ELSE LET s == CHOOSE x \in suppliers : TRUE
             size == Cardinality({i \in 1..Len(category_data) :
                                     category_data[i].supplier_name = s})
         IN  size * size + SumSquaredSizes(category_data, suppliers \ {s})

\* the shares taken as fractions of 1 instead of percentages
HerfindahlIndex_Fraction(category_data) ==
    RoundHalfEven(
        100 * SumSquaredSizes(category_data,
                  {category_data[i].supplier_name : i \in 1..Len(category_data)}),
        Len(category_data) * Len(category_data))

\* round(((size / len(category_data) * 100) ** 2).sum(), 2), in hundredths
HerfindahlIndex(category_data) ==
    RoundHalfEven(
        1000000 * SumSquaredSizes(category_data,
                      {category_data[i].supplier_name : i \in 1..Len(category_data)}),
        Len(category_data) * Len(category_data))

\* the dict category -> hhi, as the sequence of its items in insertion order
get_market_concentration(table) ==
    LET cats == Unique([i \in 1..Len(table) |-> table[i].category])
    IN  [k \in 1..Len(cats) |->
            [category |-> cats[k],
             hhi |-> HerfindahlIndex(CategoryData(table, cats[k]))]]

\* the loop of get_savings_potential over the products, from the i-th on;
\* prices in cents, savings_percentage in hundredths of a percent
RECURSIVE SavingsScan(_, _, _)
SavingsScan(table, products, i) ==
    IF i > Len(products) THEN <<>>
    ELSE LET product_data == ProductData(table, products[i])
             max_price == SeqMax(SellingPrices(product_data))
             min_price == SeqMin(SellingPrices(product_data))
         IN  (IF max_price > min_price
              THEN <<[product_name |-> product_data[1].product_name,
                      category |-> product_data[1].category,
                      current_max_price |-> Round2Mills(max_price),
                      best_price |-> Round2Mills(min_price),
                      savings_per_unit |-> Round2Mills(max_price - min_price),
                      savings_percentage |->
                          RoundHalfEven((max_price - min_price) * 10000, max_price)]>>
              ELSE <<>>)
             \o SavingsScan(table, products, i + 1)

\* sort_values(by, ascending=False) of the rows recs with the sort keys scores:
\* the keys descend and the rows with a NaN key come last, in their order in
\* recs.  The sort is the default kind="quicksort", which need not be stable:
\* rows with equal keys come in an order that depends on the numpy build, so
\* every such order is an outcome.
DescendingOrders(recs, scores) ==
    LET n == Len(recs)
        Before(a, b) == IF scores[a].nan THEN scores[b].nan /\ a < b
                        ELSE scores[b].nan \/ scores[a].v >= scores[b].v
    IN  {[k \in 1..n |-> recs[g[k]]] :
            g \in {f \in [1..n -> 1..n] :
                      /\ \A i, j \in 1..n : i # j => f[i] # f[j]
                      /\ \A i, j \in 1..n : i < j => Before(f[i], f[j])}}

\* the outcomes of get_savings_potential: pd.DataFrame(savings_data) has no
\* column when savings_data is empty, and sort_values on the missing column
\* raises KeyError
get_savings_potential(table) ==
    LET savings_data ==
            SavingsScan(table, Unique([i \in 1..Len(table) |-> table[i].product_id]), 1)
    IN  IF savings_data = <<>>
        THEN {[kind |-> "raise", error |-> "KeyError"]}
        ELSE {[kind |-> "frame", rows |-> rows] :
                 rows \in DescendingOrders(savings_data,
                     [i \in 1..Len(savings_data) |->
                         Num(savings_data[i].savings_percentage)])}

\* the keys of groupby("product_name"), in sorted order: product_names lists
\* the names in lexicographic order
GroupNames(table) ==
    SelectSeq(product_names,
              LAMBDA name : \E i \in 1..Len(table) : table[i].product_name = name)

GroupData(table, name) == SelectSeq(table, LAMBDA row : row.product_name = name)

\* the "std" of a group rounded by .round(2), in cents: NaN for one row, else
\* the k with k - 0.5 <= sqrt(sample variance) / 10 < k + 0.5, prices in mills
StdCents(prices) ==
    LET n == Len(prices)
        S == SumSeq(prices)
        v4 == 4 * (n * SumSq(prices) - S * S)
        d == 100 * n * (n - 1)
    IN  IF n < 2 THEN NaN
        ELSE Num(CHOOSE k \in 0..(SeqMax(prices) \div 10 + 1) :
                     /\ k = 0 \/ (2 * k - 1) * (2 * k - 1) * d <= v4
                     /\ v4 < (2 * k + 1) * (2 * k + 1) * d)

\* the "mean" of a group rounded by .round(2), in cents
MeanCents(prices) == RoundHalfEven(SumSeq(prices), 10 * Len(prices))

\* (factor * variance / avg * 100).round(2), in hundredths; NaN / x and 0 / 0
\* are NaN (std > 0 with a mean rounded to 0 does not occur for these prices)
RatioScore(factor, variance, avg) ==
    IF variance.nan \/ avg = 0 THEN NaN
    ELSE Num(RoundHalfEven(factor * variance.v * 10000, avg))

\* the frame of get_price_competitiveness before it is sorted
CompetitivenessRows(table) ==
    LET names == GroupNames(table)
    IN  [g \in 1..Len(names) |->
            LET prices == SellingPrices(GroupData(table, names[g]))
            IN  [product_name |-> names[g],
                 avg_price |-> MeanCents(prices),
                 price_variance |-> StdCents(prices),
                 min_price |-> Round2Mills(SeqMin(prices)),
                 max_price |-> Round2Mills(SeqMax(prices)),
                 score |-> RatioScore(1, StdCents(prices), MeanCents(prices))]]

\* the outcomes of get_price_competitiveness
get_price_competitiveness(table) ==
    LET rows == CompetitivenessRows(table)
    IN  {[kind |-> "frame", rows |-> r] :
            r \in DescendingOrders(rows, [i \in 1..Len(rows) |-> rows[i].score])}

\* the frame of identify_strategic_products before it is sorted
StrategicRows(table) ==
    LET names == GroupNames(table)
    IN  [g \in 1..Len(names) |->
            LET data == GroupData(table, names[g])
                prices == SellingPrices(data)
                suppliers == Cardinality({data[i].supplier_name : i \in 1..Len(data)})
            IN  [product_name |-> names[g],
                 supplier_count |-> suppliers,
                 avg_price |-> MeanCents(prices),
                 price_variance |-> StdCents(prices),
                 records |-> Len(data),
                 score |-> RatioScore(suppliers, StdCents(prices), MeanCents(prices))]]

\* the outcomes of identify_strategic_products
identify_strategic_products(table) ==
    LET rows == StrategicRows(table)
    IN  {[kind |-> "frame", rows |-> r] :
            r \in DescendingOrders(rows, [i \in 1..Len(rows) |-> rows[i].score])}

-----------------------------------------------------------------------------
(* The calls on a ProcurementAnalytics object                              *)

product_categories == <<"Rice & Grains", "Edible Oil">>
ListingSuppliers == {"Supplier A", "Supplier B", "Supplier C", "Supplier D"}
ListingPrice == 450
PortfolioPrices == {0, 450, 650}

\* the object was constructed on the empty table
InitAnalytics ==
    /\ df = <<>>
    /\ self_df = <<>>
    /\ self_categories = <<>>
    /\ call = NoCall
    /\ ret = NoRet

\* ProcurementAnalytics(df): self.df = df.copy()
Construct ==
    /\ call = NoCall
    /\ self_df # df
    /\ self_df' = df
    /\ UNCHANGED <<df, self_categories, call, ret>>

\* the caller adds to its table an offer of some supplier for a product
AddListing ==
    /\ call = NoCall
    /\ Len(df) < MaxOffers
    /\ \E pid \in ProductIds, supplier \in ListingSuppliers :
        df' = Append(df, [product_id |-> pid,
                          product_name |-> product_names[pid],
                          category |-> product_categories[pid],
                          supplier_name |-> supplier,
                          selling_price |-> ListingPrice])
    /\ UNCHANGED <<self_df, self_categories, call, ret>>

\* the caller adds to its table an offer at some price for a product
AddPortfolioOffer ==
    /\ call = NoCall
    /\ Len(df) < MaxOffers
    /\ \E pid \in ProductIds, price \in PortfolioPrices :
        df' = Append(df, [product_id |-> pid,
                          product_name |-> product_names[pid],
                          category |-> product_categories[pid],
                          supplier_name |-> supplier_roster[Len(df) + 1],
                          selling_price |-> price])
    /\ UNCHANGED <<self_df, self_categories, call, ret>>

GetMarketConcentration ==
    /\ call = NoCall
    /\ call' = [op |-> "get_market_concentration"]
    /\ ret' = [kind |-> "concentration",
               items |-> get_market_concentration(ObjectTable)]
    /\ UNCHANGED <<df, self_df, self_categories>>

GetSavingsPotential ==
    /\ call = NoCall
    /\ call' = [op |-> "get_savings_potential"]
    /\ ret' \in get_savings_potential(ObjectTable)
    /\ UNCHANGED <<df, self_df, self_categories>>

GetPriceCompetitiveness ==
    /\ call = NoCall
    /\ call' = [op |-> "get_price_competitiveness"]
    /\ ret' \in get_price_competitiveness(ObjectTable)
    /\ UNCHANGED <<df, self_df, self_categories>>

IdentifyStrategicProducts ==
    /\ call = NoCall
    /\ call' = [op |-> "identify_strategic_products"]
    /\ ret' \in identify_strategic_products(ObjectTable)
    /\ UNCHANGED <<df, self_df, self_categories>>

NextConcentration == AddListing \/ Construct \/ GetMarketConcentration \/ Return

SpecConcentration == InitAnalytics /\ [][NextConcentration]_vars

NextPortfolio ==
    \/ AddPortfolioOffer
    \/ Construct
    \/ GetMarketConcentration
    \/ GetSavingsPotential
    \/ GetPriceCompetitiveness
    \/ IdentifyStrategicProducts
    \/ IdentifyPriceAnomalies
    \/ Return

SpecPortfolio == InitAnalytics /\ [][NextPortfolio]_vars

-----------------------------------------------------------------------------
(* Properties of the portfolio analytics, checked under SpecConcentration  *)
(* and SpecPortfolio                                                       *)

IsConcentrationCall == call.op = "get_market_concentration"
IsSavingsPotentialCall == call.op = "get_savings_potential"

\* the rows of the table held by the object that are offers of product pid
HeldRows(pid) == {i \in 1..Len(self_df) : self_df[i].product_id = pid}
HeldPriceSet(pid) == {self_df[i].selling_price : i \in HeldRows(pid)}

\* the rows of the table held by the object that belong to a category, the
\* suppliers behind them, and the number of pairs of such rows (a row with
\* itself included) that come from one supplier: the sum over the suppliers of
\* the square of their number of offers
HeldCategories == {self_df[i].category : i \in 1..Len(self_df)}
HeldCategoryRows(c) == {i \in 1..Len(self_df) : self_df[i].category = c}
HeldSuppliers(c) == {self_df[i].supplier_name : i \in HeldCategoryRows(c)}
SameSupplierPairs(c) ==
    Cardinality({p \in HeldCategoryRows(c) \X HeldCategoryRows(c) :
                    self_df[p[1]].supplier_name = self_df[p[2]].supplier_name})
OffersOfSupplier(c, s) ==
    Cardinality({i \in HeldCategoryRows(c) : self_df[i].supplier_name = s})

\* the items of the returned mapping are the categories of the table, one each
ConcentrationKeysAreCategories ==
    /\ {ret.items[k].category : k \in 1..Len(ret.items)} = HeldCategories
    /\ Len(ret.items) = Cardinality(HeldCategories)

\* C13: every aggregate function returns an empty result and does not raise
\* when the table has no offers; get_savings_potential also returns an empty
\* result without raising when the table is not empty but no product has more
\* than one offer.
C13_EmptyResultWithoutRaising ==
    /\ IsAnomalyCall /\ df = <<>> => ret.kind # "raise" /\ ret.rows = <<>>
    /\ IsConcentrationCall /\ self_df = <<>>
          => ret.kind # "raise" /\ ret.items = <<>>
    /\ IsSavingsPotentialCall /\ self_df = <<>>
          => ret.kind # "raise" /\ ret.rows = <<>>
    /\ IsSavingsPotentialCall /\ self_df # <<>>
       /\ (\A pid \in ProductIds : Cardinality(HeldRows(pid)) <= 1)
          => ret.kind # "raise" /\ ret.rows = <<>>

\* C14 as stated: the value reported for each category is the sum over its
\* suppliers of (100 * offers of the supplier / offers of the category) squared;
\* 10000 for a single supplier and 2500 for an even split over 4 suppliers.
\* Values are counted in hundredths.
C14_ExactSumReported ==
    IsConcentrationCall =>
        /\ ConcentrationKeysAreCategories
        /\ \A k \in 1..Len(ret.items) :
            LET c == ret.items[k].category
                n == Cardinality(HeldCategoryRows(c))
            IN  ret.items[k].hhi * n * n = 1000000 * SameSupplierPairs(c)

\* C14, amended: the value reported for each category is that sum rounded to 2
\* decimals (within half a hundredth of it); it is exactly 10000 for a category
\* with a single supplier and 2500 for a category split evenly over 4 suppliers.
C14_RoundedSumReported ==
    IsConcentrationCall =>
        /\ ConcentrationKeysAreCategories
        /\ \A k \in 1..Len(ret.items) :
            LET c == ret.items[k].category
                n == Cardinality(HeldCategoryRows(c))
                d == ret.items[k].hhi * n * n - 1000000 * SameSupplierPairs(c)
            IN  /\ 2 * d <= n * n /\ -2 * d <= n * n
                /\ Cardinality(HeldSuppliers(c)) = 1 => ret.items[k].hhi = 1000000
                /\ (Cardinality(HeldSuppliers(c)) = 4
                    /\ \A s, t \in HeldSuppliers(c) :
                          OffersOfSupplier(c, s) = OffersOfSupplier(c, t))
                      => ret.items[k].hhi = 250000

\* a category split evenly over 3 suppliers was reported as 3333.33
C14_Witness ==
    /\ IsConcentrationCall
    /\ \E k \in 1..Len(ret.items) :
        /\ Cardinality(HeldSuppliers(ret.items[k].category)) = 3
        /\ Cardinality(HeldCategoryRows(ret.items[k].category)) = 3
        /\ ret.items[k].hhi = 333333

\* C15 as stated: the value returned for a category, after its rounding to 2
\* decimals, lies in [10000/n, 10000], n the number of distinct suppliers with
\* an offer in the category.
C15_WithinExactBounds ==
    IsConcentrationCall =>
        \A k \in 1..Len(ret.items) :
            /\ ret.items[k].hhi * Cardinality(HeldSuppliers(ret.items[k].category))
                  >= 1000000
            /\ ret.items[k].hhi <= 1000000

\* C15, amended: the value returned for a category lies between 10000/n rounded
\* to 2 decimals and 10000.
C15_WithinRoundedBounds ==
    IsConcentrationCall =>
        \A k \in 1..Len(ret.items) :
            LET n == Cardinality(HeldSuppliers(ret.items[k].category))
            IN  /\ RoundHalfEven(1000000, n) <= ret.items[k].hhi
                /\ ret.items[k].hhi <= 1000000

\* a value below 10000/n was returned: 3 suppliers with one offer each
C15_Witness ==
    /\ IsConcentrationCall
    /\ \E k \in 1..Len(ret.items) :
        LET n == Cardinality(HeldSuppliers(ret.items[k].category))
        IN  n = 3 /\ ret.items[k].hhi * n < 1000000

\* the records returned for product pid
SavingsRecords(pid) ==
    {k \in 1..Len(ret.rows) : ret.rows[k].product_name = product_names[pid]}

\* C16: get_savings_potential returns exactly one record for each product with
\* more than one offer, a zero-savings record when all its offers have the same
\* selling price, and no record for a product with a single offer.
C16_OneRecordPerMultiOfferProduct ==
    IsSavingsPotentialCall /\ ret.kind = "frame" =>
        \A pid \in ProductIds :
            /\ Cardinality(SavingsRecords(pid)) =
                  (IF Cardinality(HeldRows(pid)) > 1 THEN 1 ELSE 0)
            /\ (Cardinality(HeldRows(pid)) > 1
                /\ Cardinality(HeldPriceSet(pid)) = 1)
                  => \A k \in SavingsRecords(pid) :
                        /\ ret.rows[k].savings_per_unit = 0
                        /\ ret.rows[k].savings_percentage = 0

IsPrefix(s, t) == Len(s) <= Len(t) /\ s = SubSeq(t, 1, Len(s))

-----------------------------------------------------------------------------
(* Further properties of the classifier, checked under SpecCategory        *)

\* what categorize_product returns on an engine just constructed: the earliest
\* category of the constructor's taxonomy with a keyword in the name, and the
\* subcategory selected among those it declares
FreshPair(name) ==
    IF MatchedCategories(name) = {} THEN Sentinel
    ELSE LET c == CHOOSE x \in MatchedCategories(name) :
                      \A y \in MatchedCategories(name) : x <= y
         IN  <<categories[c].name,
               _select_subcategory(Lower(name), categories[c].subcategories)>>

\* C18: after any sequence of categorize_product, get_brand_list and
\* get_all_categories calls on one engine, the taxonomy it holds is the one set
\* at construction, and categorize_product returns for a name the pair a
\* freshly constructed engine returns for it.
C18_TaxonomyNeverChanges ==
    /\ self_categories = categories
    /\ IsCategorizeCall => ret.pair = FreshPair(call.product_name)
    /\ call.op = "get_all_categories"
          => ret.list = [i \in 1..Len(categories) |-> categories[i].name]

\* a name was categorized on an engine that holds the constructor's taxonomy
C18_Witness ==
    /\ IsCategorizeCall
    /\ self_categories = categories
    /\ call.product_name = <<"m","o","o","n","g"," ","d","a","l">>
    /\ ret.pair = FreshPair(call.product_name)
    /\ ret.pair # Sentinel

\* str.upper() and str.swapcase(), one character at a time
UpperChar(c) ==
    IF \E i \in 1..Len(LowerLetters) : LowerLetters[i] = c
    THEN UpperLetters[CHOOSE i \in 1..Len(LowerLetters) : LowerLetters[i] = c]
    ELSE c

Upper(s) == [i \in 1..Len(s) |-> UpperChar(s[i])]
SwapCase(s) == [i \in 1..Len(s) |-> IF UpperChar(s[i]) = s[i] THEN LowerChar(s[i])
                                    ELSE UpperChar(s[i])]

\* runs of whitespace put before or after a name
Paddings == {<<>>, <<" ">>, <<"\t">>, <<" ", " ">>, <<"\n">>}

\* the names that differ from a name only in the case of letters or in
\* whitespace added before or after it
Variants(name) ==
    {before \o cased \o after :
        before \in Paddings, after \in Paddings,
        cased \in {name, Lower(name), Upper(name), SwapCase(name)}}

\* C19: categorize_product returns the same pair for a name and for every
\* variant of it that differs only in the case of its letters or in whitespace
\* added before or after it.
C19_CaseAndPaddingInsensitive ==
    IsCategorizeCall =>
        \A variant \in Variants(call.product_name) :
            categorize_product(variant) = ret.pair

\* a name of mixed case was categorized, and it has variants other than itself
C19_Witness ==
    /\ IsCategorizeCall
    /\ call.product_name = <<"T","e","a"," ","S","O","A","P">>
    /\ ret.pair # Sentinel
    /\ <<" ">> \o Lower(call.product_name) \o <<"\t">> \in Variants(call.product_name)
    /\ Upper(call.product_name) # call.product_name
    /\ categorize_product(<<" ">> \o Lower(call.product_name) \o <<"\t">>) = ret.pair

-----------------------------------------------------------------------------
(* Products without price variation, checked under SpecPricing             *)

\* product pid has one offer, or several offers all at one price above 0
AtOnePrice(pid) ==
    /\ OfferCount(pid) >= 1
    /\ Cardinality(OfferPriceSet(pid)) = 1
    /\ LowestOffer(pid) > 0

\* C20: for a product with a single offer, or with several offers all at the
\* same selling price p > 0, the fair price is p, identify_price_anomalies does
\* not report the product, and calculate_savings_opportunity returns a
\* well-formed record with savings_per_unit = 0 and savings_percentage = 0.
C20_NoVariationIsHandled ==
    /\ IsAnalysisCall /\ AtOnePrice(call.product_id)
          => /\ "fair_price_x2" \in DOMAIN ret.result
             /\ ret.result.fair_price_x2 = 2 * LowestOffer(call.product_id)
    /\ IsAnomalyCall
          => \A p \in ProductsInTable : AtOnePrice(p) => p \notin ReportedProducts
    /\ IsSavingsCall /\ AtOnePrice(call.product_id)
          => /\ ret.kind = "savings"
             /\ DOMAIN ret.result =
                   {"product_name", "savings_per_unit", "savings_percentage",
                    "current_supplier", "best_supplier", "current_price", "best_price"}
             /\ ret.result.savings_per_unit = 0
             /\ ret.result.savings_percentage = Num(0)
             /\ ret.result.current_price = ret.result.best_price

\* the savings of a product offered three times at 0.453 were asked for
C20_Witness ==
    /\ IsSavingsCall
    /\ AtOnePrice(call.product_id)
    /\ OfferCount(call.product_id) = 3
    /\ LowestOffer(call.product_id) = 453
    /\ ret.result.savings_percentage = Num(0)

-----------------------------------------------------------------------------
(* Further properties of the decision engine, checked under SpecDecision   *)

\* the prices listed in the supplier price table of the call
ListedPrices ==
    {call.supplier_prices[i][2] : i \in 1..Len(call.supplier_prices)}

\* C21: for every non-empty supplier price table, generate_recommendation
\* reports as best_supplier a supplier of the table whose price is the minimum
\* of the listed prices, with best_price that minimum: best_price is at most
\* every listed price, the listed price of the selected supplier included.
C21_BestSupplierIsCheapest ==
    IsRecommendationCall /\ call.supplier_prices # <<>> =>
        /\ \E i \in 1..Len(call.supplier_prices) :
              call.supplier_prices[i] = <<ret.rec.best_supplier, ret.rec.best_price>>
        /\ \A p \in ListedPrices : ret.rec.best_price <= p
        /\ \A i \in 1..Len(call.supplier_prices) :
              call.supplier_prices[i][1] = call.selected_supplier
                  => ret.rec.best_price <= call.supplier_prices[i][2]

\* the cheapest supplier stood last in a table of three, and the selected
\* supplier was another one of the table
C21_Witness ==
    /\ IsRecommendationCall
    /\ Len(call.supplier_prices) = 3
    /\ call.supplier_prices[3] = <<ret.rec.best_supplier, ret.rec.best_price>>
    /\ call.supplier_prices[1][2] > ret.rec.best_price
    /\ call.supplier_prices[2][2] > ret.rec.best_price
    /\ call.supplier_prices[1][1] = call.selected_supplier

\* the segments of the reasoning string of one kind
ReasoningSegments(kind) ==
    {i \in 1..Len(ret.rec.reasoning) : ret.rec.reasoning[i].seg = kind}

\* C22: the reasoning string of every recommendation reports the stock
\* category that the decision rules used for the stock level, the demand level,
\* the selected price and the average price (both to the cent), and the best
\* supplier; it has a percentage-savings segment exactly when the selected
\* price is strictly below the average price.
C22_ReasoningReportsInputs ==
    IsRecommendationCall =>
        /\ \E i \in ReasoningSegments("stock") :
              /\ ReasoningSegments("stock") = {i}
              /\ ret.rec.reasoning[i].stock_level = call.stock_level
              /\ ret.rec.reasoning[i].demand = call.demand_level
              /\ ret.rec.reasoning[i].stock_category =
                    (IF call.stock_level < 50 THEN "Low"
                     ELSE IF call.stock_level < 150 THEN "Medium" ELSE "High")
              /\ ret.rec.decision = BUY_NOW
                    => ret.rec.reasoning[i].stock_category = "Low"
              /\ (ret.rec.decision = CONSIDER_BUYING
                  /\ ret.rec.reasoning[i].stock_category # "High")
                    => ret.rec.reasoning[i].stock_category = "Medium"
        /\ \E i \in ReasoningSegments("price") :
              /\ ReasoningSegments("price") = {i}
              /\ ret.rec.reasoning[i].supplier_price = Round2Mills(call.selected_price)
              /\ ret.rec.reasoning[i].average_price = ret.rec.average_price
        /\ \E i \in ReasoningSegments("best") :
              /\ ReasoningSegments("best") = {i}
              /\ ret.rec.reasoning[i].best_supplier = ret.rec.best_supplier
        /\ ReasoningSegments("savings") # {}
              <=> call.selected_price < ret.rec.average_price * 10

\* the selected price was the average price, and no savings segment was written
C22_Witness ==
    /\ IsRecommendationCall
    /\ call.supplier_prices # <<>>
    /\ call.selected_price = ret.rec.average_price * 10
    /\ ReasoningSegments("savings") = {}
    /\ ReasoningSegments("stock") # {}

\* the supplier prices of the call, in the order of the table
ListedPriceSeq ==
    [i \in 1..Len(call.supplier_prices) |-> call.supplier_prices[i][2]]

\* C26 as stated: the suggested purchase price of a recommendation is the fair
\* price (outlier-trimmed median) of the supplier prices times (1 - negotiation
\* margin), here with the default margin of 5% and to the cent.
C26_SuggestedFromFairPrice ==
    IsRecommendationCall /\ call.supplier_prices # <<>> =>
        ret.rec.suggested_purchase_price =
            RoundHalfEven(_calculate_fair_price(ListedPriceSeq) * 95, 2000)

\* C26, amended: the suggested purchase price of a recommendation is
\* round(average_price * 0.95, 2), where average_price is the mean of the
\* supplier prices rounded to 2 decimals (0.0 for an empty table); the margin
\* is the default 5% and is not an input of generate_recommendation.
C26_SuggestedFromAveragePrice ==
    IsRecommendationCall =>
        /\ DOMAIN call = {"op", "selected_supplier", "selected_price",
                          "supplier_prices", "stock_level", "demand_level"}
        /\ ret.rec.average_price =
              (IF call.supplier_prices = <<>> THEN 0
               ELSE RoundHalfEven(SumSeq(ListedPriceSeq),
                                  10 * Len(call.supplier_prices)))
        /\ 2 * (100 * ret.rec.suggested_purchase_price - 95 * ret.rec.average_price)
              \in -100..100

\* three supplier prices whose mean is not their median
C26_Witness ==
    /\ IsRecommendationCall
    /\ Len(call.supplier_prices) = 3
    /\ Cardinality(ListedPrices) = 3
    /\ ret.rec.suggested_purchase_price
          # RoundHalfEven(_calculate_fair_price(ListedPriceSeq) * 95, 2000)
    /\ ret.rec.suggested_purchase_price = RoundHalfEven(ret.rec.average_price * 95, 100)

\* C29: two calls of make_procurement_decision with the same stock level and
\* demand level and different supplier price or average price return the same
\* decision unless stock >= 150 and demand is High; whenever demand is not High
\* the decision is Wait, for every stock level and every price.
C29_PriceMattersOnlyAtHighStockHighDemand ==
    IsDecisionCall =>
        /\ ~(call.stock_level >= 150 /\ call.demand_level = "High")
              => \A price \in DecisionPrices, average \in DecisionPrices :
                    make_procurement_decision(call.stock_level, call.demand_level,
                                              price, average) = ret.decision
        /\ call.demand_level # "High" => ret.decision = WAIT

\* Medium stock and High demand, at a price well below the average
C29_Witness ==
    /\ IsDecisionCall
    /\ call.stock_level = 149
    /\ call.demand_level = "High"
    /\ call.supplier_price = 80000
    /\ call.average_price = 100000
    /\ ret.decision = CONSIDER_BUYING
    /\ make_procurement_decision(149, "High", 100000, 80000) = CONSIDER_BUYING

-----------------------------------------------------------------------------
(* Further properties of the pricing analyzer, checked under SpecPricing   *)

\* the k-th smallest selling price among the rows S of df, found by counting
KthSmallest(S, k) ==
    CHOOSE v \in {df[i].selling_price : i \in S} :
        /\ Cardinality({i \in S : df[i].selling_price < v}) < k
        /\ k <= Cardinality({i \in S : df[i].selling_price <= v})

\* 2 * the median of the selling prices of the rows S
MedianOfRows2(S) ==
    LET n == Cardinality(S)
    IN  IF n % 2 = 1 THEN 2 * KthSmallest(S, (n + 1) \div 2)
        ELSE KthSmallest(S, n \div 2) + KthSmallest(S, n \div 2 + 1)

\* 4 * the percentile 25 * q of the selling prices of the rows S: the value at
\* the position q * (n - 1) / 4 of the sorted prices, interpolated linearly
QuartileOfRows4(S, q) ==
    LET pos4 == q * (Cardinality(S) - 1)
        k == pos4 \div 4
        r == pos4 % 4
    IN  IF r = 0 THEN 4 * KthSmallest(S, k + 1)
        ELSE (4 - r) * KthSmallest(S, k + 1) + r * KthSmallest(S, k + 2)

\* the offers of pid whose price lies within the fences, both inclusive
WithinFences(pid) ==
    LET Q1x4 == QuartileOfRows4(OfferRows(pid), 1)
        Q3x4 == QuartileOfRows4(OfferRows(pid), 3)
    IN  {i \in OfferRows(pid) :
            /\ 8 * df[i].selling_price >= 2 * Q1x4 - 3 * (Q3x4 - Q1x4)
            /\ 8 * df[i].selling_price <= 2 * Q3x4 + 3 * (Q3x4 - Q1x4)}

\* C23: for every non-empty array of selling prices, _calculate_fair_price
\* returns the median of exactly the prices p with
\* Q1 - 1.5 * IQR <= p <= Q3 + 1.5 * IQR, Q1 and Q3 the 25th and 75th
\* percentiles of all the prices; if no price is left it returns the median of
\* all the prices; it always returns a number.
C23_FairPriceIsTrimmedMedian ==
    IsAnalysisCall /\ OfferCount(call.product_id) >= 1 =>
        /\ "fair_price_x2" \in DOMAIN ret.result
        /\ ret.result.fair_price_x2 \in Int
        /\ ret.result.fair_price_x2 =
              (IF WithinFences(call.product_id) = {}
               THEN MedianOfRows2(OfferRows(call.product_id))
               ELSE MedianOfRows2(WithinFences(call.product_id)))

\* an offer was outside the fences and the fair price is not the median of all
C23_Witness ==
    /\ IsAnalysisCall
    /\ OfferCount(call.product_id) = 4
    /\ WithinFences(call.product_id) # OfferRows(call.product_id)
    /\ ret.result.fair_price_x2 = MedianOfRows2(WithinFences(call.product_id))
    /\ ret.result.fair_price_x2 # MedianOfRows2(OfferRows(call.product_id))

\* C27: for every non-empty array of selling prices at least one price lies
\* within [Q1 - 1.5 * IQR, Q3 + 1.5 * IQR]: the outlier filter of
\* _calculate_fair_price never removes every price and the fallback to the
\* median of all the prices is never taken.
C27_FilterKeepsAPrice ==
    IsAnalysisCall /\ OfferCount(call.product_id) >= 1 =>
        /\ WithinFences(call.product_id) # {}
        /\ Len(IqrFiltered(SellingPrices(ProductData(df, call.product_id))))
              = Cardinality(WithinFences(call.product_id))
        /\ ret.result.fair_price_x2 = MedianOfRows2(WithinFences(call.product_id))

\* all the offers of the product at one price: the fences fall on that price
C27_Witness ==
    /\ IsAnalysisCall
    /\ OfferCount(call.product_id) = 3
    /\ Cardinality(OfferPriceSet(call.product_id)) = 1
    /\ QuartileOfRows4(OfferRows(call.product_id), 1)
          = QuartileOfRows4(OfferRows(call.product_id), 3)
    /\ WithinFences(call.product_id) = OfferRows(call.product_id)

-----------------------------------------------------------------------------
(* Subcategories, checked under SpecCategory                               *)

\* the position in the taxonomy of the category returned by the call
ReturnedCategory ==
    CHOOSE c \in 1..Len(categories) : categories[c].name = ret.pair[1]

DeclaredSubcategories(c) ==
    {categories[c].subcategories[k] : k \in 1..Len(categories[c].subcategories)}

\* the entries of the keyword-to-subcategory table whose keyword occurs in the
\* name, whatever the case of its letters
OccurringEntries(name) ==
    {i \in 1..Len(keyword_subcategory_map) :
        Contains(keyword_subcategory_map[i][1], Lower(name))}

FirstDeclaredOrGeneral(c) ==
    IF categories[c].subcategories # <<>> THEN categories[c].subcategories[1]
    ELSE "General"

\* the subcategory mapped by the first entry of a non-empty set of entries
FirstEntrySubcategory(entries) ==
    keyword_subcategory_map[CHOOSE i \in entries : \A j \in entries : i <= j][2]

\* C24 as stated: once a category is matched, the subcategory returned is the
\* one mapped by the first entry of the keyword-to-subcategory table whose
\* keyword occurs in the name; if no keyword of the table occurs, it is the
\* category's first declared subcategory, or "General" if it declares none.
C24_FirstOccurringEntryWins ==
    IsCategorizeCall /\ ret.pair # Sentinel =>
        ret.pair[2] =
            (IF OccurringEntries(call.product_name) = {}
             THEN FirstDeclaredOrGeneral(ReturnedCategory)
             ELSE FirstEntrySubcategory(OccurringEntries(call.product_name)))

\* the entries whose keyword occurs in the name and whose subcategory is
\* declared for category c
EligibleEntries(name, c) ==
    {i \in OccurringEntries(name) :
        keyword_subcategory_map[i][2] \in DeclaredSubcategories(c)}

\* C24, amended: the subcategory returned is the one mapped by the first entry
\* of the table whose keyword occurs in the name and whose subcategory is
\* declared for the matched category; if there is no such entry, it is the
\* category's first declared subcategory, or "General" if it declares none.
C24_FirstEligibleEntryWins ==
    IsCategorizeCall /\ ret.pair # Sentinel =>
        ret.pair[2] =
            (IF EligibleEntries(call.product_name, ReturnedCategory) = {}
             THEN FirstDeclaredOrGeneral(ReturnedCategory)
             ELSE FirstEntrySubcategory(
                      EligibleEntries(call.product_name, ReturnedCategory)))

\* "red rice": the entry of "red" maps to Red Lentils, which Rice & Grains does
\* not declare
C24_Witness ==
    /\ IsCategorizeCall
    /\ call.product_name = <<"r","e","d"," ","r","i","c","e">>
    /\ OccurringEntries(call.product_name) # {}
    /\ EligibleEntries(call.product_name, ReturnedCategory) = {}
    /\ ret.pair = <<"Rice & Grains", "Basmati">>

\* C28: the pair returned by categorize_product is either the sentinel
\* ("Other Products", "Uncategorized") or a pair (c, s) with c a category of the
\* taxonomy and s one of the subcategories declared for c; a subcategory
\* declared only for another category is never returned.
C28_SubcategoryDeclaredForCategory ==
    IsCategorizeCall =>
        \/ ret.pair = Sentinel
        \/ \E c \in 1..Len(categories) :
              /\ ret.pair[1] = categories[c].name
              /\ ret.pair[2] \in DeclaredSubcategories(c)

\* a keyword of the table occurred whose subcategory belongs to another
\* category than the one matched
C28_Witness ==
    /\ IsCategorizeCall
    /\ call.product_name = <<"m","o","o","n","g"," ","r","i","c","e">>
    /\ ret.pair # Sentinel
    /\ \E i \in OccurringEntries(call.product_name) :
          keyword_subcategory_map[i][2] \notin DeclaredSubcategories(ReturnedCategory)
    /\ ret.pair[2] \in DeclaredSubcategories(ReturnedCategory)


-----------------------------------------------------------------------------
(* The order of the ranking tables.                                        *)

IsRankingCall ==
    call.op \in {"get_price_competitiveness", "identify_strategic_products",
                 "get_savings_potential"}

\* the score a ranking table is sorted by, of its k-th record
RankingScore(k) ==
    IF IsSavingsPotentialCall THEN Num(ret.rows[k].savings_percentage)
    ELSE ret.rows[k].score

\* the position in the held Offer table of the first offer of a product
FirstAppearance(name) ==
    CHOOSE i \in 1..Len(self_df) :
        /\ self_df[i].product_name = name
        /\ \A j \in 1..(i - 1) : self_df[j].product_name # name

\* C25: each ranking table lists its records in descending order of the score,
\* and records of equal score come in the order in which their products first
\* appear in the Offer table.
C25_DescendingThenFirstAppearance ==
    (IsRankingCall /\ ret.kind = "frame") =>
        \A i, j \in 1..Len(ret.rows) :
            (i < j /\ ~RankingScore(i).nan /\ ~RankingScore(j).nan) =>
                /\ RankingScore(i).v >= RankingScore(j).v
                /\ RankingScore(i).v = RankingScore(j).v =>
                       FirstAppearance(ret.rows[i].product_name)
                           < FirstAppearance(ret.rows[j].product_name)


-----------------------------------------------------------------------------
(* identify_price_anomalies for one product.                               *)

\* C30: when identify_price_anomalies is given a product identifier (any
\* integer, 0 included), every record of the result is for that product, and
\* the result is empty when that product has fewer than two offers or is not
\* in the table.
C30_OnlyTheGivenProduct ==
    (IsAnomalyCall /\ call.product_id # None) =>
        /\ ReportedProducts \subseteq {call.product_id[1]}
        /\ OfferCount(call.product_id[1]) < 2 => ret.rows = <<>>

=============================================================================
